---- MODULE Spec2Model ----
(***************************************************************************)
(* Model of the hard-link creation tool (HardlinkCreator, its batch worker *)
(* process_files, validate_inputs and RecentPathManager).                  *)
(*                                                                         *)
(* Paths and file names are sequences of one-character strings, so that    *)
(* os.path.basename, os.path.splitext, os.path.join and the f-string that  *)
(* builds the suffixed name are computed, not assumed.                     *)
(*                                                                         *)
(* The file system is the destination path OutDir (absent, a directory or  *)
(* a regular file), the entries of that directory, and a fixed set of      *)
(* source files.  Its environment creates entries and never removes any.   *)
(*                                                                         *)
(* The application stays open while a batch runs: the main window and its  *)
(* status_text exist, so log_status and root.update() do not raise.  The   *)
(* progress Toplevel of a batch can be closed at any time.                 *)
(***************************************************************************)
EXTENDS Integers, Sequences, FiniteSets, TLC

VARIABLES
    listbox,        \* files_list.listbox: the selected source paths
    output_dir,     \* self.output_dir (tk.StringVar), <<>> when unset
    alert,          \* the last messagebox.showerror raised by validate_inputs
    fsOut,          \* what is at the path OutDir: "none", "dir" or "file"
    dest,           \* entries of the directory OutDir: name -> creator
    worker,         \* the process_files threads, one record per thread
    recent_paths,   \* RecentPathManager.recent_paths
    recent_file,    \* recent_paths.json: [kind, data]
    budget          \* how many bounded environment choices were used

vars == <<listbox, output_dir, alert, fsOut, dest, worker,
          recent_paths, recent_file, budget>>

(***************************************************************************)
(* Bounds of the model.                                                    *)
(***************************************************************************)
MaxFiles == 2       \* longest source list a batch is started on
MaxConcurrentFiles == 1  \* longest source list a second batch is started on
MaxReAdds == 1      \* re-selections of a directory already in recent_paths
MaxSaveFails == 1   \* failing writes of recent_paths.json
MaxRestarts == 1    \* restarts of the program (reload of recent_paths.json)

Workers == {1, 2}   \* process_files threads that may be started

(***************************************************************************)
(* Path arithmetic (posixpath / genericpath).                              *)
(***************************************************************************)
SEP == "/"
Digits == <<"0", "1", "2", "3", "4", "5", "6", "7", "8", "9">>

\* p.rfind(c) over p[1..n]; 0 when c does not occur
RECURSIVE rfind(_, _, _)
rfind(p, c, n) ==
    IF n = 0 THEN 0 ELSE IF p[n] = c THEN n ELSE rfind(p, c, n - 1)

basename(p) == SubSeq(p, rfind(p, SEP, Len(p)) + 1, Len(p))

\* genericpath._splitext: the extension starts at the last dot, unless only
\* dots precede it in the file name
splitext(p) ==
    LET sepIndex == rfind(p, SEP, Len(p))
        dotIndex == rfind(p, ".", Len(p))
    IN  IF /\ dotIndex > sepIndex
           /\ \E k \in (sepIndex + 1)..(dotIndex - 1) : p[k] # "."
        THEN <<SubSeq(p, 1, dotIndex - 1), SubSeq(p, dotIndex, Len(p))>>
        ELSE <<p, <<>>>>

join(a, b) ==
    IF Len(b) > 0 /\ b[1] = SEP THEN b
    ELSE IF Len(a) = 0 \/ a[Len(a)] = SEP THEN a \o b
    ELSE a \o <<SEP>> \o b

\* str(count) of a non-negative integer
RECURSIVE str(_)
str(n) ==
    IF n < 10 THEN <<Digits[n + 1]>>
    ELSE str(n \div 10) \o <<Digits[(n % 10) + 1]>>

new_name_skipping(base, count, ext) == base \o <<"_">> \o str(count + 1) \o ext
\* f"{base}_{count}{ext}"
new_name(base, count, ext) == base \o <<"_">> \o str(count) \o ext

first_candidate_suffixed(out, file) ==
    LET s == splitext(basename(file)) IN join(out, new_name(s[1], 1, s[2]))
\* output_path = os.path.join(output_dir, os.path.basename(file))
first_candidate(out, file) == join(out, basename(file))

(***************************************************************************)
(* The file system.                                                        *)
(***************************************************************************)
OutDir == <<"/", "o">>
SrcA == <<"/", "a", "/", "r", ".", "t">>
SrcB == <<"/", "b", "/", "r", ".", "t">>
SrcC == <<"/", "a", "/", "r", "_", "1", ".", "t">>
SrcMissing == <<"/", "m", "/", "f">>

ExistingSources == {SrcA, SrcB, SrcC}
Sources == ExistingSources \cup {SrcMissing}

\* names another process may create in OutDir
ExtNames == {basename(SrcA), basename(SrcC)}
External == <<0, 0>>

\* os.path.exists(p)
exists(d, fs, p) ==
    \/ p = OutDir /\ fs # "none"
    \/ fs = "dir" /\ \E n \in DOMAIN d : p = join(OutDir, n)
    \/ p \in ExistingSources

os_link_overwriting(d, fs, src, dst) ==
    IF src \notin ExistingSources THEN "ENOENT"
    ELSE IF fs # "dir" \/ dst # join(OutDir, basename(dst)) THEN "ENOTDIR"
    ELSE "OK"
\* os.link(src, dst): "OK", or the error it raises
os_link(d, fs, src, dst) ==
    IF src \notin ExistingSources THEN "ENOENT"
    ELSE IF fs # "dir" \/ dst # join(OutDir, basename(dst)) THEN "ENOTDIR"
    ELSE IF basename(dst) \in DOMAIN d THEN "EEXIST"
    ELSE "OK"

(***************************************************************************)
(* process_files: one record per thread.                                   *)
(***************************************************************************)
IdleWorker ==
    [pc |-> "idle", files |-> <<>>, out |-> <<>>, total |-> 0, i |-> 0,
     success_count |-> 0, error_count |-> 0, count |-> 0,
     output_path |-> <<>>, window |-> FALSE, log |-> <<>>,
     link_calls |-> {}, final_message |-> <<>>]

\* the thread as create_hardlinks starts it
StartedWorker(files, out) ==
    [IdleWorker EXCEPT !.pc = "iter", !.files = files, !.out = out,
                       !.total = Len(files), !.window = TRUE]

except_uncounted(r, e) ==
    [r EXCEPT !.log = Append(@, [kind |-> "ERR", path |-> r.files[r.i + 1],
                                 msg |-> e]),
              !.i = @ + 1, !.pc = "iter"]
except_propagating(r, e) ==
    [r EXCEPT !.error_count = @ + 1, !.pc = "aborted"]
\* except Exception as e: error_count += 1; log_status(...); then the next file
except_handler(r, e) ==
    [r EXCEPT !.error_count = @ + 1,
              !.log = Append(@, [kind |-> "ERR", path |-> r.files[r.i + 1],
                                 msg |-> e]),
              !.i = @ + 1, !.pc = "iter"]

(***************************************************************************)
(* validate_inputs: which branch it takes.                                 *)
(***************************************************************************)
validate_branch_dir_first(size, out, fs, d) ==
    IF Len(out) > 0 /\ ~exists(d, fs, out) THEN "makedirs"
    ELSE IF size = 0 THEN "EmptyInput"
    ELSE IF Len(out) = 0 THEN "NoDestination"
    ELSE "ok"
validate_branch(size, out, fs, d) ==
    IF size = 0 THEN "EmptyInput"
    ELSE IF Len(out) = 0 THEN "NoDestination"
    ELSE IF ~exists(d, fs, out) THEN "makedirs"
    ELSE "ok"

(***************************************************************************)
(* RecentPathManager.                                                      *)
(***************************************************************************)
max_entries == 10

RECURSIVE remove(_, _)
\* list.remove(x): drops the first occurrence
remove(s, x) ==
    IF s = <<>> THEN <<>>
    ELSE IF Head(s) = x THEN Tail(s)
    ELSE <<Head(s)>> \o remove(Tail(s), x)

add_path_no_dedup(paths, path) ==
    LET b == <<path>> \o paths
    IN  IF Len(b) > max_entries THEN SubSeq(b, 1, Len(b) - 1) ELSE b
\* add_path without the save
add_path(paths, path) ==
    LET a == IF \E k \in 1..Len(paths) : paths[k] = path
             THEN remove(paths, path) ELSE paths
        b == <<path>> \o a
    IN  IF Len(b) > max_entries THEN SubSeq(b, 1, Len(b) - 1) ELSE b

\* load_recent_paths: json.load of the file, [] when missing or unparsable
load_recent_paths(f) == IF f.kind = "json" THEN f.data ELSE <<>>

\* the directories the folder dialog can return, one more than max_entries
DirNames == <<"a", "b", "c", "d", "e", "f", "g", "h", "i", "j", "k", "l", "m">>
RecentDir(k) == <<SEP, DirNames[k]>>
RecentDirs == {RecentDir(k) : k \in 1..(max_entries + 1)}
InList(paths, path) == \E k \in 1..Len(paths) : paths[k] = path
\* the first directory of DirNames that is not in the list
FirstUnlisted(paths) ==
    RecentDir(CHOOSE k \in 1..(max_entries + 1) :
                /\ ~InList(paths, RecentDir(k))
                /\ \A j \in 1..(k - 1) : InList(paths, RecentDir(j)))

(***************************************************************************)
(* Initial state: the application after HardlinkCreator.__init__.          *)
(***************************************************************************)
Init ==
    /\ listbox = <<>>
    /\ output_dir = <<>>
    /\ alert = "none"
    /\ fsOut \in {"none", "dir", "file"}
    /\ dest = <<>>
    /\ worker = [w \in Workers |-> IdleWorker]
    /\ recent_file \in {[kind |-> "missing", data |-> <<>>],
                        [kind |-> "corrupt", data |-> <<>>]}
    /\ recent_paths = load_recent_paths(recent_file)
    /\ budget = [reAdds |-> 0, saveFails |-> 0, restarts |-> 0]

NoBatchYet == \A w \in Workers : worker[w].pc = "idle"
recentVars == <<recent_paths, recent_file, budget>>

(***************************************************************************)
(* The user interface.  The source list and the output folder are edited   *)
(* before the first batch is started; a thread works on the copies made at *)
(* lines 327-328, which later edits cannot reach.                          *)
(***************************************************************************)
\* add_files / on_drop: one path appended to the listbox
add_files(f) ==
    /\ NoBatchYet
    /\ Len(listbox) < MaxFiles
    /\ listbox' = Append(listbox, f)
    /\ UNCHANGED <<output_dir, alert, fsOut, dest, worker, recentVars>>

clear_all ==
    /\ NoBatchYet
    /\ listbox # <<>>
    /\ listbox' = <<>>
    /\ UNCHANGED <<output_dir, alert, fsOut, dest, worker, recentVars>>

\* the output folder Entry is typed into (textvariable=self.output_dir)
type_output_dir(d) ==
    /\ NoBatchYet
    /\ output_dir # d
    /\ output_dir' = d
    /\ UNCHANGED <<listbox, alert, fsOut, dest, worker, recentVars>>

\* create_hardlinks: validate_inputs, then the thread is started
create_hardlinks(w) ==
    /\ worker[w].pc = "idle"
    /\ \A v \in Workers : v < w => worker[v].pc # "idle"
    /\ NoBatchYet \/ Len(listbox) <= MaxConcurrentFiles
    /\ LET b == validate_branch(Len(listbox), output_dir, fsOut, dest)
       IN  \/ /\ b \in {"EmptyInput", "NoDestination"}
              /\ alert' = b
              /\ UNCHANGED <<fsOut, worker>>
           \/ /\ b = "makedirs"      \* os.makedirs raises
              /\ alert' = "DestinationCreateError"
              /\ UNCHANGED <<fsOut, worker>>
           \/ /\ b = "makedirs"      \* os.makedirs creates the directory
              /\ fsOut' = "dir"
              /\ worker' = [worker EXCEPT ![w] = StartedWorker(listbox, output_dir)]
              /\ UNCHANGED alert
           \/ /\ b = "ok"
              /\ worker' = [worker EXCEPT ![w] = StartedWorker(listbox, output_dir)]
              /\ UNCHANGED <<alert, fsOut>>
    /\ UNCHANGED <<listbox, output_dir, dest, recentVars>>

\* the progress Toplevel is closed by the user while the thread runs
close_progress_window(w) ==
    /\ worker[w].pc \in {"iter", "loop", "link"}
    /\ worker[w].window
    /\ worker' = [worker EXCEPT ![w].window = FALSE]
    /\ UNCHANGED <<listbox, output_dir, alert, fsOut, dest, recentVars>>

(***************************************************************************)
(* process_files, one step per file-system call.                           *)
(***************************************************************************)
\* lines 354-368: progress widgets, first candidate, first existence check
IterBegin(w) ==
    LET r == worker[w]
        p == first_candidate(r.out, r.files[r.i + 1])
    IN  /\ r.pc = "iter"
        /\ r.i < r.total
        /\ worker' = [worker EXCEPT ![w] =
              IF ~r.window THEN except_handler(r, "TclError")
              ELSE IF exists(dest, fsOut, p)
                   THEN [r EXCEPT !.output_path = p, !.count = 1, !.pc = "loop"]
                   ELSE [r EXCEPT !.output_path = p, !.pc = "link"]]
        /\ UNCHANGED <<listbox, output_dir, alert, fsOut, dest, recentVars>>

\* lines 369-372: one evaluation of the while condition, and the loop body
ProbeLoop(w) ==
    LET r == worker[w]
        s == splitext(basename(r.files[r.i + 1]))
    IN  /\ r.pc = "loop"
        /\ worker' = [worker EXCEPT ![w] =
              IF exists(dest, fsOut, r.output_path)
              THEN [r EXCEPT !.output_path = join(r.out, new_name(s[1], r.count, s[2])),
                             !.count = @ + 1]
              ELSE [r EXCEPT !.pc = "link"]]
        /\ UNCHANGED <<listbox, output_dir, alert, fsOut, dest, recentVars>>

\* lines 375-384: os.link, the counters and the log line
Link(w) ==
    LET r == worker[w]
        k == r.i + 1
        e == os_link(dest, fsOut, r.files[k], r.output_path)
        called == [r EXCEPT !.link_calls = @ \cup {k}]
        name == basename(r.output_path)
    IN  /\ r.pc = "link"
        /\ IF e = "OK"
           THEN /\ dest' = [n \in DOMAIN dest \cup {name} |->
                               IF n = name THEN <<w, k>> ELSE dest[n]]
                /\ worker' = [worker EXCEPT ![w] =
                      [called EXCEPT !.success_count = @ + 1,
                                     !.log = Append(@, [kind |-> "OK",
                                                        path |-> r.output_path,
                                                        msg |-> "OK"]),
                                     !.i = k, !.pc = "iter"]]
           ELSE /\ worker' = [worker EXCEPT ![w] = except_handler(called, e)]
                /\ UNCHANGED dest
        /\ UNCHANGED <<listbox, output_dir, alert, fsOut, recentVars>>

\* lines 386-393: the summary dialog, then the progress window is destroyed
Finish(w) ==
    LET r == worker[w]
    IN  /\ r.pc = "iter"
        /\ r.i = r.total
        /\ worker' = [worker EXCEPT ![w] =
              [r EXCEPT !.final_message = <<r.success_count, r.error_count>>,
                        !.window = FALSE, !.pc = "done"]]
        /\ UNCHANGED <<listbox, output_dir, alert, fsOut, dest, recentVars>>

\* another process creates an entry in the destination directory
ExternalCreate(n) ==
    /\ fsOut = "dir"
    /\ n \notin DOMAIN dest
    /\ dest' = [m \in DOMAIN dest \cup {n} |-> IF m = n THEN External ELSE dest[m]]
    /\ UNCHANGED <<listbox, output_dir, alert, fsOut, worker, recentVars>>

Next ==
    \/ \E f \in Sources : add_files(f)
    \/ clear_all
    \/ \E d \in {<<>>, OutDir} : type_output_dir(d)
    \/ \E w \in Workers : create_hardlinks(w)
    \/ \E w \in Workers : close_progress_window(w)
    \/ \E w \in Workers : IterBegin(w)
    \/ \E w \in Workers : ProbeLoop(w)
    \/ \E w \in Workers : Link(w)
    \/ \E w \in Workers : Finish(w)
    \/ \E n \in ExtNames : ExternalCreate(n)

Spec == Init /\ [][Next]_vars

(***************************************************************************)
(* RecentPathManager under select_output_dir and restarts of the program.  *)
(* Directories are interchangeable, so a directory that is not in the list *)
(* is always the first unlisted one; a re-selected directory is the first, *)
(* the second or the last of the list, and re-selections are counted.      *)
(***************************************************************************)
batchVars == <<listbox, alert, fsOut, dest, worker>>

\* select_output_dir: the dialog returns p; add_path(p) and its save
select_output_dir(p) ==
    /\ IF InList(recent_paths, p)
       THEN /\ budget.reAdds < MaxReAdds
            /\ \E k \in {1, 2, Len(recent_paths)} \cap DOMAIN recent_paths :
                  recent_paths[k] = p
       ELSE p = FirstUnlisted(recent_paths)
    /\ output_dir' = p
    /\ recent_paths' = add_path(recent_paths, p)
    /\ \/ /\ recent_file' = [kind |-> "json", data |-> recent_paths']
          /\ budget' = [budget EXCEPT !.reAdds =
                           IF InList(recent_paths, p) THEN @ + 1 ELSE @]
       \/ /\ budget.saveFails < MaxSaveFails
          /\ \/ UNCHANGED recent_file     \* open() raises
             \/ recent_file' = [kind |-> "corrupt", data |-> <<>>]
                                          \* the write stops half-way
          /\ budget' = [budget EXCEPT !.saveFails = @ + 1, !.reAdds =
                           IF InList(recent_paths, p) THEN @ + 1 ELSE @]
    /\ UNCHANGED batchVars

\* the program is started again: RecentPathManager.__init__
Restart ==
    /\ budget.restarts < MaxRestarts
    /\ recent_paths' = load_recent_paths(recent_file)
    /\ output_dir' = <<>>
    /\ budget' = [budget EXCEPT !.restarts = @ + 1]
    /\ UNCHANGED <<recent_file, batchVars>>

NextRecent ==
    \/ \E p \in RecentDirs : select_output_dir(p)
    \/ Restart

SpecRecent == Init /\ [][NextRecent]_vars

(***************************************************************************)
(* Properties.                                                             *)
(***************************************************************************)
\* the name stem_k.ext, written out independently of new_name
Suffixed(name, k) ==
    LET s == splitext(name) IN s[1] \o <<"_">> \o str(k) \o s[2]
\* destinationDir/name, written out independently of first_candidate
InDir(out, name) == out \o <<SEP>> \o name
Count(r, kind) == Cardinality({j \in 1..Len(r.log) : r.log[j].kind = kind})

\* C1: a batch logs exactly one outcome per processed source, in input
\* order (the j-th outcome is about the j-th source); success_count +
\* error_count is the number of sources processed so far, and is the
\* length of the source list when the batch has finished.
C1_OneOutcomePerSource ==
    \A w \in Workers :
        LET r == worker[w]
        IN  /\ Len(r.log) = r.i
            /\ r.i <= r.total
            /\ r.total = Len(r.files)
            /\ r.success_count + r.error_count = r.i
            /\ r.success_count = Count(r, "OK")
            /\ r.error_count = Count(r, "ERR")
            /\ \A j \in 1..Len(r.log) :
                 IF r.log[j].kind = "ERR"
                 THEN r.log[j].path = r.files[j]
                 ELSE \/ r.log[j].path = InDir(r.out, basename(r.files[j]))
                      \/ \E k \in 1..Cardinality(DOMAIN dest) :
                           r.log[j].path =
                             InDir(r.out, Suffixed(basename(r.files[j]), k))
            /\ r.pc = "done" =>
                 /\ r.i = Len(r.files)
                 /\ r.final_message = <<r.success_count, r.error_count>>
                 /\ r.final_message[1] + r.final_message[2] = Len(r.files)

C1_Witness ==
    \E w \in Workers :
        /\ worker[w].pc = "done"
        /\ worker[w].total = 2
        /\ worker[w].final_message = <<1, 1>>

\* C2: when the basename exists in the destination, the probe leaves its
\* loop with the name stem_k.ext for the smallest k >= 1 that does not
\* exist; the basename and every stem_j.ext, 1 <= j < k, exist then.
C2_SmallestFreeSuffix ==
    [][\A w \in Workers :
         (worker[w].pc = "loop" /\ worker'[w].pc = "link") =>
           LET r == worker[w]
               b == basename(r.files[r.i + 1])
           IN  \E k \in 1..(Cardinality(DOMAIN dest) + 1) :
                 /\ worker'[w].output_path = InDir(r.out, Suffixed(b, k))
                 /\ Suffixed(b, k) \notin DOMAIN dest
                 /\ \A j \in 1..(k - 1) : Suffixed(b, j) \in DOMAIN dest
                 /\ b \in DOMAIN dest
      ]_vars

C2_Witness ==
    \E w \in Workers :
        /\ worker[w].pc = "link"
        /\ worker[w].output_path =
             InDir(OutDir, Suffixed(basename(worker[w].files[worker[w].i + 1]), 2))

\* C3: when the basename does not exist in the destination at the first
\* existence check, the path handed to os.link is destinationDir/basename,
\* and a successful link creates and reports exactly that entry.
C3_PlainNameWhenFree ==
    [][\A w \in Workers :
         LET r == worker[w]
             plain == InDir(r.out, basename(r.files[r.i + 1]))
         IN  /\ ( /\ r.pc = "iter" /\ r.i < r.total
                  /\ worker'[w].pc # "iter"
                  /\ ~(fsOut = "dir" /\ basename(r.files[r.i + 1]) \in DOMAIN dest) )
                => (worker'[w].pc = "link" /\ worker'[w].output_path = plain)
             /\ ( /\ r.pc = "link" /\ r.output_path = plain
                  /\ worker'[w].success_count > r.success_count )
                => /\ worker'[w].log[r.i + 1].path = plain
                   /\ DOMAIN dest' = DOMAIN dest \cup {basename(r.files[r.i + 1])}
      ]_vars

C3_Witness ==
    \E w \in Workers :
        /\ worker[w].i >= 1
        /\ worker[w].log[1].kind = "OK"
        /\ worker[w].log[1].path = InDir(OutDir, basename(worker[w].files[1]))

\* C4: a source that does not exist is logged as a failure, a success is
\* logged only for a link that was created, and a failure stops nothing:
\* no exception leaves the loop body, a thread that is not done is at a
\* step of the loop (the guard of IterBegin, ProbeLoop, Link or Finish
\* holds), and it is done only after every source has an outcome.
C4_FailureIsolated ==
    \A w \in Workers :
        LET r == worker[w]
        IN  /\ \A j \in 1..Len(r.log) :
                 /\ r.files[j] \notin ExistingSources => r.log[j].kind = "ERR"
                 /\ r.log[j].kind = "OK" => basename(r.log[j].path) \in DOMAIN dest
            /\ r.pc # "aborted"
            /\ r.pc \notin {"idle", "done"} =>
                 \/ r.pc = "iter" /\ r.i <= r.total
                 \/ r.pc \in {"loop", "link"} /\ r.i < r.total
            /\ r.pc = "done" => Len(r.log) = Len(r.files)

C4_Witness ==
    \E w \in Workers :
        /\ worker[w].pc = "done"
        /\ worker[w].files = <<SrcMissing, SrcA>>
        /\ worker[w].log[1].kind = "ERR"
        /\ worker[w].log[1].msg = "ENOENT"
        /\ worker[w].log[2].kind = "OK"

\* C5: when a batch reports its final result, os.link has been called for
\* every source of its list, whether or not the progress window was closed.
C5_EverySourceAttempted ==
    \A w \in Workers :
        worker[w].pc = "done" => worker[w].link_calls = 1..worker[w].total

\* C6: while the source list is empty nothing creates the destination
\* directory, no batch is started, the only entries that appear in the
\* destination are another process's, and the only alert is EmptyInput.
C6_EmptyInputTouchesNothing ==
    [][listbox = <<>> =>
         /\ fsOut' = fsOut
         /\ worker' = worker
         /\ alert' # alert => alert' = "EmptyInput"
         /\ \A n \in DOMAIN dest' : n \in DOMAIN dest \/ dest'[n] = External
      ]_vars

C6_Witness ==
    /\ listbox = <<>>
    /\ alert = "EmptyInput"
    /\ output_dir = OutDir
    /\ fsOut = "none"

\* C7: whenever validate_inputs has succeeded and a batch has begun, the
\* destination path is a directory; after a DestinationCreateError alert
\* with no batch begun, the directory was not created.
C7_DestinationIsDirectory ==
    /\ \A w \in Workers : worker[w].pc # "idle" => fsOut = "dir"
    /\ (alert = "DestinationCreateError" /\ NoBatchYet) => fsOut = "none"

\* C8: an entry of the destination is never overwritten or replaced; a link
\* whose target exists when os.link runs is logged as a failure; every
\* logged success names an entry that this very link creation made, so no
\* path is a logged success of two link creations.
C8_NoOverwrite ==
    /\ [][ /\ \A n \in DOMAIN dest : n \in DOMAIN dest' /\ dest'[n] = dest[n]
           /\ \A w \in Workers :
                ( /\ worker[w].pc = "link" /\ worker'[w].pc # "link"
                  /\ basename(worker[w].output_path) \in DOMAIN dest )
                => worker'[w].log[worker[w].i + 1].kind = "ERR"
         ]_vars
    /\ [](\A w \in Workers : \A j \in 1..Len(worker[w].log) :
            worker[w].log[j].kind = "OK" =>
              LET n == basename(worker[w].log[j].path)
              IN  /\ worker[w].log[j].path = InDir(OutDir, n)
                  /\ n \in DOMAIN dest
                  /\ dest[n] = <<w, j>>)

C8_Witness ==
    \E w \in Workers : \E j \in 1..Len(worker[w].log) :
        /\ worker[w].log[j].msg = "EEXIST"
        /\ \E v \in Workers \ {w} :
             dest[basename(worker[w].files[j])] = <<v, 1>>

\* C9: in a finished batch that ran alone into a destination directory with
\* no entries of another process, where no other source is named like a
\* suffixed name, the linkable sources that share a basename stem.ext are
\* logged as successes at stem.ext, stem_1.ext, ... in input order, and
\* the success paths of the batch are pairwise distinct.
C9_SameNameSourcesAllLinked ==
    \A w \in Workers :
        LET r == worker[w]
            same(j) == {h \in 1..j : /\ r.files[h] \in ExistingSources
                                     /\ basename(r.files[h]) = basename(r.files[j])}
        IN  ( /\ r.pc = "done"
              /\ fsOut = "dir"
              /\ \A v \in Workers \ {w} : worker[v].pc = "idle"
              /\ \A n \in DOMAIN dest : dest[n] # External
              /\ \A j, h \in 1..r.total : \A k \in 1..r.total :
                   basename(r.files[h]) # Suffixed(basename(r.files[j]), k) )
            => /\ \A j \in 1..r.total :
                    r.files[j] \in ExistingSources =>
                      /\ r.log[j].kind = "OK"
                      /\ r.log[j].path =
                           IF Cardinality(same(j)) = 1
                           THEN InDir(r.out, basename(r.files[j]))
                           ELSE InDir(r.out, Suffixed(basename(r.files[j]),
                                                      Cardinality(same(j)) - 1))
               /\ \A j, h \in 1..r.total :
                    (j # h /\ r.log[j].kind = "OK" /\ r.log[h].kind = "OK")
                    => r.log[j].path # r.log[h].path

\* C10: recent_paths never holds more than max_entries paths nor the same
\* path twice, the directory selected last is its first entry, and a load
\* from a missing or unparsable file gives the empty list.
C10_RecentPaths ==
    /\ (recent_file.kind # "json" => recent_paths = <<>>)
    /\ [](/\ Len(recent_paths) <= max_entries
          /\ \A j, k \in 1..Len(recent_paths) :
               j # k => recent_paths[j] # recent_paths[k]
          /\ output_dir # <<>> => (recent_paths # <<>> /\ recent_paths[1] = output_dir))
    /\ [][(budget'.restarts # budget.restarts /\ recent_file.kind # "json")
            => recent_paths' = <<>>]_vars

C10_Witness ==
    /\ Len(recent_paths) = max_entries
    /\ recent_paths[1] = RecentDir(2)
    /\ recent_paths[2] = RecentDir(max_entries + 1)
    /\ budget.reAdds = 1

====
